---- MODULE Spec2Model ----
(***************************************************************************)
(* Colombia working-days calculator: the holiday service (external list    *)
(* behind a memoised fetch, local holiday computation), the date utilities *)
(* (zone conversion, working-day and business-hours predicates, backward   *)
(* adjustment) and the working-days service (day and hour advancement).    *)
(*                                                                         *)
(* Time is counted in whole minutes.  A JS Date is an integer number of    *)
(* minutes since 2024-12-30T00:00Z (a Monday).  A Luxon DateTime in zone   *)
(* America/Bogota is a record [day, hour, minute] of local civil fields,   *)
(* where day counts civil days since 2024-12-30.  A "YYYY-MM-DD" string is *)
(* the civil day number it denotes.                                        *)
(***************************************************************************)
EXTENDS Integers, FiniteSets, Sequences, TLC

VARIABLES
    provider,          \* the list the holiday URL serves (set of civil days)
    allHolidaysCache,  \* HolidayService.allHolidaysCache: <<>> (null) or <<list>>
    op,                \* the handler call that last completed, with what it returned
    calls,             \* the calls of fetchAllHolidays under way, per caller
    holidaysCache,     \* HolidayService.holidaysCache: per year, <<>> or <<list>>
    requests           \* requests the lookup sequences sent to the holiday URL
                       \*   since clearCache was last called

vars == <<provider, allHolidaysCache, op, calls, holidaysCache, requests>>

-----------------------------------------------------------------------------
(* Bounds of the model *)

MaxDays == 2          \* days parameter ranges over 0..MaxDays
MaxHours == 10        \* hours parameter ranges over 0..MaxHours
MaxAnchorDay == 6     \* anchors lie on local civil days 1..MaxAnchorDay
MaxCallers == 3       \* callers that may be inside fetchAllHolidays at once
MinYear == 2000       \* holiday lists are computed for the years
MaxYear == 2060       \*   MinYear..MaxYear
MaxRequests == 3      \* requests counted in a lookup sequence

-----------------------------------------------------------------------------
(* BusinessHoursConfig *)

startHour == 8
startMinute == 0
endHour == 17
endMinute == 0
lunchStartHour == 12
lunchStartMinute == 0
lunchEndHour == 13
lunchEndMinute == 0

\* America/Bogota is UTC-05:00 all year: UTC is this many minutes ahead.
BogotaOffsetMinutes == 300

MinutesPerDay == 24 * 60

NULL == <<>>

Min(a, b) == IF a <= b THEN a ELSE b
Max(a, b) == IF a >= b THEN a ELSE b

-----------------------------------------------------------------------------
(* Civil calendar *)

\* Days from 1970-01-01 to the civil date y-m-d (proleptic Gregorian).
DaysFromCivil(y, m, d) ==
    LET yy  == IF m <= 2 THEN y - 1 ELSE y
        era == yy \div 400
        yoe == yy - era * 400
        mp  == IF m > 2 THEN m - 3 ELSE m + 9
        doy == (153 * mp + 2) \div 5 + d - 1
        doe == yoe * 365 + yoe \div 4 - yoe \div 100 + doy
    IN  era * 146097 + doe - 719468

\* Civil day number of y-m-d, counted from 2024-12-30.
CivilDay(y, m, d) == DaysFromCivil(y, m, d) - DaysFromCivil(2024, 12, 30)

\* Luxon weekday of a civil day: 1 = Monday ... 7 = Sunday (day 0 is a Monday).
weekday(day) == (day % 7) + 1

\* JS Date.getDay() of a civil day: 0 = Sunday ... 6 = Saturday.
getDay(day) == (day + 1) % 7

-----------------------------------------------------------------------------
(* Luxon DateTime arithmetic in zone America/Bogota *)

DateTime(day, hour, minute) == [day |-> day, hour |-> hour, minute |-> minute]

\* Local minutes since local midnight of day 0.
localMinutes(dt) == dt.day * MinutesPerDay + dt.hour * 60 + dt.minute

fromLocalMinutes(m) ==
    DateTime(m \div MinutesPerDay, (m % MinutesPerDay) \div 60, m % 60)

\* dt.plus({ days: n }) / dt.minus({ days: n }): civil days, time of day kept.
plusDays(dt, n) == DateTime(dt.day + n, dt.hour, dt.minute)
minusDays(dt, n) == DateTime(dt.day - n, dt.hour, dt.minute)

\* dt.set({ hour, minute, second: 0, millisecond: 0 })
setTime(dt, hour, minute) == DateTime(dt.day, hour, minute)

\* dt.plus({ hours: x }) with x given in minutes (x may be a fraction of an hour).
plusMinutes(dt, m) == fromLocalMinutes(localMinutes(dt) + m)

\* a.diff(b), in minutes.
diff(a, b) == localMinutes(a) - localMinutes(b)

\* dt.toJSDate(): the instant a local reading denotes.
toJSDate(dt) == localMinutes(dt) + BogotaOffsetMinutes

\* date.toISOString().split('T')[0]: the UTC civil date of an instant.
toISODate(date) == date \div MinutesPerDay

-----------------------------------------------------------------------------
(* utils/dateUtils *)

\* DateTime.fromJSDate(date).setZone('America/Bogota')
utcToColombiaTime(date) == fromLocalMinutes(date - BogotaOffsetMinutes)

\* colombiaTimeToUtc reading the local fields as if they were UTC.
colombiaTimeToUtc_noOffset(dt) == localMinutes(dt)

\* date.setZone('America/Bogota').toUTC().toJSDate()
colombiaTimeToUtc(dt) == toJSDate(dt)

\* isWithinBusinessHours with a lunch break that ends just before lunchEnd.
isWithinBusinessHours_halfOpenLunch(date) ==
    LET hour == date.hour
        minute == date.minute
    IN  IF hour < startHour \/ (hour = startHour /\ minute < startMinute)
        THEN FALSE
        ELSE IF hour > endHour \/ (hour = endHour /\ minute > endMinute)
        THEN FALSE
        ELSE IF \/ (hour = lunchStartHour /\ minute >= lunchStartMinute)
                \/ (hour > lunchStartHour /\ hour < lunchEndHour)
                \/ (hour = lunchEndHour /\ minute < lunchEndMinute)
        THEN FALSE
        ELSE TRUE

\* Before business hours / after business hours / inside the lunch break,
\* as isWithinBusinessHours tests them.
isWithinBusinessHours(date) ==
    LET hour == date.hour
        minute == date.minute
    IN  IF hour < startHour \/ (hour = startHour /\ minute < startMinute)
        THEN FALSE
        ELSE IF hour > endHour \/ (hour = endHour /\ minute > endMinute)
        THEN FALSE
        ELSE IF \/ (hour = lunchStartHour /\ minute >= lunchStartMinute)
                \/ (hour > lunchStartHour /\ hour < lunchEndHour)
                \/ (hour = lunchEndHour /\ minute <= lunchEndMinute)
        THEN FALSE
        ELSE TRUE

-----------------------------------------------------------------------------
(* services/holidayService: HolidayService *)

\* axios.get(HOLIDAYS_URL): resolves with the served list or rejects.
httpGet(up, data) == IF up THEN [ok |-> TRUE, data |-> data]
                           ELSE [ok |-> FALSE, data |-> {}]

\* fetchAllHolidays rethrowing the provider error instead of returning [].
fetchAllHolidays_rethrow(cache, up, data) ==
    IF cache # NULL
    THEN [threw |-> FALSE, value |-> cache[1], cache |-> cache]
    ELSE LET response == httpGet(up, data)
         IN  IF response.ok
             THEN [threw |-> FALSE, value |-> response.data, cache |-> <<response.data>>]
             ELSE [threw |-> TRUE, value |-> {}, cache |-> cache]

\* fetchAllHolidays(): the cached list if there is one (an empty list counts),
\* else the served list, cached; [] and nothing cached when the request fails.
fetchAllHolidays(cache, up, data) ==
    IF cache # NULL
    THEN [threw |-> FALSE, value |-> cache[1], cache |-> cache]
    ELSE LET response == httpGet(up, data)
         IN  IF response.ok
             THEN [threw |-> FALSE, value |-> response.data, cache |-> <<response.data>>]
             ELSE [threw |-> FALSE, value |-> {}, cache |-> cache]

\* The test isHoliday makes on the list fetchAllHolidays gave it:
\* allHolidays.includes(dateStr), dateStr being date.toISOString().split('T')[0].
isHoliday(allHolidays, date) == toISODate(date) \in allHolidays

\* new Date(year, month - 1, day): midnight of that civil date in the zone of
\* the server process.
newDate(zone, year, month, day) == CivilDay(year, month, day) * MinutesPerDay - zone

\* date.getDay() in the zone of the server process.
dateGetDay(zone, date) == getDay((date + zone) \div MinutesPerDay)

calculateEaster(zone, year) ==
    LET a == year % 19
        b == year \div 100
        c == year % 100
        d == b \div 4
        e == b % 4
        f == (b + 8) \div 25
        g == (b - f + 1) \div 3
        h == (19 * a + b - d - g + 15) % 30
        i == c \div 4
        k == c % 4
        l == (32 + 2 * e + 2 * i - h - k) % 7
        m == (a + 11 * h + 22 * l) \div 451
        month == (h + l - 7 * m + 114) \div 31
        day == ((h + l - 7 * m + 114) % 31) + 1
    IN  newDate(zone, year, month, day)

\* moveToNextMonday leaving the date where it is.
moveToNextMonday_noMove(zone, date) == date

moveToNextMonday(zone, date) ==
    IF dateGetDay(zone, date) = 1 THEN date
    ELSE date + ((8 - dateGetDay(zone, date)) % 7) * MinutesPerDay

FIXED_HOLIDAYS == << <<1, 1>>, <<5, 1>>, <<7, 20>>, <<8, 7>>, <<12, 8>>, <<12, 25>> >>

MOVABLE_HOLIDAYS ==
    << <<1, 6>>, <<3, 19>>, <<6, 29>>, <<8, 15>>, <<10, 12>>, <<11, 1>>, <<11, 11>> >>

\* The movable-holiday loop body without the move to Monday.
movableDate_noMove(zone, year, holiday) == newDate(zone, year, holiday[1], holiday[2])

\* The movable-holiday loop body: the date moved to the next Monday.
movableDate(zone, year, holiday) ==
    LET originalDate == newDate(zone, year, holiday[1], holiday[2])
    IN  IF dateGetDay(zone, originalDate) # 1
        THEN originalDate + ((8 - dateGetDay(zone, originalDate)) % 7) * MinutesPerDay
        ELSE originalDate

\* The Easter-based holidays of calculateColombianHolidays, in the order they
\* are pushed: Jueves Santo, Viernes Santo, Ascension, Corpus Christi, Sagrado
\* Corazon.
easterHolidays(zone, year) ==
    LET easterDate == calculateEaster(zone, year)
    IN  << toISODate(easterDate - 3 * MinutesPerDay),
           toISODate(easterDate - 2 * MinutesPerDay),
           toISODate(moveToNextMonday(zone, easterDate + 39 * MinutesPerDay)),
           toISODate(moveToNextMonday(zone, easterDate + 60 * MinutesPerDay)),
           toISODate(moveToNextMonday(zone, easterDate + 68 * MinutesPerDay)) >>

\* calculateColombianHolidays(year): the date strings, in ascending order.
calculateColombianHolidays(zone, year) ==
    LET fixed == [n \in 1..Len(FIXED_HOLIDAYS) |->
                    toISODate(newDate(zone, year, FIXED_HOLIDAYS[n][1], FIXED_HOLIDAYS[n][2]))]
        movable == [n \in 1..Len(MOVABLE_HOLIDAYS) |->
                    toISODate(movableDate(zone, year, MOVABLE_HOLIDAYS[n]))]
        easter == easterHolidays(zone, year)
    IN  SortSeq(fixed \o movable \o easter, LAMBDA x, y : x < y)

\* new Date(dateStr).getFullYear(): the year, in the zone of the server
\* process, of the instant a date string denotes (its UTC midnight).
getFullYear(zone, dateStr) ==
    LET day == (dateStr * MinutesPerDay + zone) \div MinutesPerDay
    IN  CHOOSE y \in (MinYear - 1)..(MaxYear + 1) :
            CivilDay(y, 1, 1) <= day /\ day < CivilDay(y + 1, 1, 1)

\* The served array: the dates of a set in ascending order.
RECURSIVE arrayOf(_)
arrayOf(dates) ==
    IF dates = {} THEN <<>>
    ELSE LET first == CHOOSE d \in dates : \A e \in dates : d <= e
         IN  <<first>> \o arrayOf(dates \ {first})

\* allHolidays.filter(dateStr => new Date(dateStr).getFullYear() === year)
yearHolidays(zone, allHolidays, year) ==
    arrayOf({dateStr \in allHolidays : getFullYear(zone, dateStr) = year})

\* What fetchHolidays(year) caches and returns once fetchAllHolidays has
\* answered f: the dates of the year in the external list, or the locally
\* computed ones when there are none or when the fetch threw.
fetchHolidaysEntry(zone, f, year) ==
    IF f.threw THEN calculateColombianHolidays(zone, year)
    ELSE IF Len(yearHolidays(zone, f.value, year)) = 0
    THEN calculateColombianHolidays(zone, year)
    ELSE yearHolidays(zone, f.value, year)

-----------------------------------------------------------------------------
(* utils/dateUtils, continued *)

\* isWorkingDay(date): the weekday is read in Bogota time, the holiday test is
\* holidayService.isHoliday(date) on the instant.
isWorkingDay(allHolidays, date) ==
    LET colombiaTime == utcToColombiaTime(date)
        dayOfWeek == weekday(colombiaTime.day)
    IN  IF dayOfWeek = 6 \/ dayOfWeek = 7 THEN FALSE
        ELSE ~isHoliday(allHolidays, date)

\* The first loop of adjustToPreviousWorkingTime: back one civil day at a
\* time, to the end of the business day, until the day is a working day.
RECURSIVE adjustToWorkingDay(_, _)
adjustToWorkingDay(allHolidays, currentDate) ==
    IF isWorkingDay(allHolidays, toJSDate(currentDate)) THEN currentDate
    ELSE adjustToWorkingDay(allHolidays,
             setTime(minusDays(currentDate, 1), endHour, endMinute))

RECURSIVE adjustToPreviousWorkingTime(_, _)
adjustToPreviousWorkingTime(allHolidays, date) ==
    LET currentDate == adjustToWorkingDay(allHolidays, utcToColombiaTime(date))
    IN  IF ~isWithinBusinessHours(currentDate)
        THEN IF \/ currentDate.hour < startHour
                \/ (currentDate.hour = startHour /\ currentDate.minute < startMinute)
             THEN adjustToPreviousWorkingTime(allHolidays,
                      colombiaTimeToUtc(setTime(minusDays(currentDate, 1), endHour, endMinute)))
             ELSE LET afterEnd ==
                          IF \/ currentDate.hour > endHour
                             \/ (currentDate.hour = endHour /\ currentDate.minute > endMinute)
                          THEN setTime(currentDate, endHour, endMinute)
                          ELSE currentDate
                      inLunch ==
                          IF /\ \/ afterEnd.hour > lunchStartHour
                                \/ (afterEnd.hour = lunchStartHour
                                    /\ afterEnd.minute >= lunchStartMinute)
                             /\ \/ afterEnd.hour < lunchEndHour
                                \/ (afterEnd.hour = lunchEndHour
                                    /\ afterEnd.minute < lunchEndMinute)
                          THEN setTime(afterEnd, lunchStartHour, lunchStartMinute)
                          ELSE afterEnd
                  IN  colombiaTimeToUtc(inLunch)
        ELSE colombiaTimeToUtc(currentDate)

-----------------------------------------------------------------------------
(* services/workingDaysService: WorkingDaysService.  Hours are counted in   *)
(* minutes, so that the fractions of an hour the code computes are exact.   *)

\* The inner loop of addWorkingDays and the loop of getNextWorkingDayStart:
\* forward one civil day at a time until the day is a working day.
RECURSIVE skipToWorkingDay(_, _)
skipToWorkingDay(allHolidays, currentDate) ==
    IF isWorkingDay(allHolidays, toJSDate(currentDate)) THEN currentDate
    ELSE skipToWorkingDay(allHolidays, plusDays(currentDate, 1))

\* addWorkingDays without the inner loop over non-working days.
addWorkingDays_noSkip(allHolidays, startDate, daysToAdd) ==
    IF daysToAdd <= 0 THEN startDate ELSE plusDays(startDate, daysToAdd)

RECURSIVE addWorkingDays(_, _, _)
addWorkingDays(allHolidays, startDate, daysToAdd) ==
    IF daysToAdd <= 0 THEN startDate
    ELSE addWorkingDays(allHolidays,
                        skipToWorkingDay(allHolidays, plusDays(startDate, 1)),
                        daysToAdd - 1)

\* getNextWorkingDayStart without the loop over non-working days.
getNextWorkingDayStart_noSkip(allHolidays, date) ==
    setTime(plusDays(date, 1), startHour, startMinute)

getNextWorkingDayStart(allHolidays, date) ==
    skipToWorkingDay(allHolidays, setTime(plusDays(date, 1), startHour, startMinute))

\* calculateRemainingBusinessHours counting the lunch break as business time.
calculateRemainingBusinessHours_noLunch(date) ==
    IF ~isWithinBusinessHours(date) THEN 0
    ELSE Max(0, diff(setTime(date, endHour, endMinute), date))

\* calculateRemainingBusinessHours(date), in minutes.
calculateRemainingBusinessHours(date) ==
    IF ~isWithinBusinessHours(date) THEN 0
    ELSE LET endOfDay == setTime(date, endHour, endMinute)
             lunchStart == setTime(date, lunchStartHour, lunchStartMinute)
             lunchEnd == setTime(date, lunchEndHour, lunchEndMinute)
             remainingMillis == diff(endOfDay, date)
             afterLunch ==
                 IF date.hour < lunchEndHour
                 THEN IF diff(date, lunchStart) < 0
                      THEN remainingMillis - diff(lunchEnd, lunchStart)
                      ELSE IF diff(date, lunchStart) >= 0 /\ diff(date, lunchEnd) < 0
                      THEN remainingMillis - diff(lunchEnd, date)
                      ELSE remainingMillis
                 ELSE remainingMillis
         IN  Max(0, afterLunch)

\* addHoursSkippingLunch(date, hoursToAdd): the loop, hours in minutes.
RECURSIVE addHoursSkippingLunchLoop(_, _, _)
addHoursSkippingLunchLoop(result, hoursAdded, hoursToAdd) ==
    IF ~(hoursAdded < hoursToAdd) THEN result
    ELSE LET hour == result.hour
             minute == result.minute
             isBeforeLunch == \/ hour < lunchStartHour
                              \/ (hour = lunchStartHour /\ minute < lunchStartMinute)
             isAfterLunch == \/ hour >= lunchEndHour
                             \/ (hour = lunchEndHour /\ minute >= lunchEndMinute)
         IN  IF isBeforeLunch
             THEN LET lunchStart == setTime(result, lunchStartHour, lunchStartMinute)
                      hoursUntilLunch == diff(lunchStart, result)
                      hoursToAddBeforeLunch == Min(hoursToAdd - hoursAdded, hoursUntilLunch)
                      moved == IF hoursToAddBeforeLunch > 0
                               THEN plusMinutes(result, hoursToAddBeforeLunch)
                               ELSE result
                      added == IF hoursToAddBeforeLunch > 0
                               THEN hoursAdded + hoursToAddBeforeLunch
                               ELSE hoursAdded
                  IN  IF added < hoursToAdd
                      THEN addHoursSkippingLunchLoop(
                               setTime(moved, lunchEndHour, lunchEndMinute), added, hoursToAdd)
                      ELSE addHoursSkippingLunchLoop(moved, added, hoursToAdd)
             ELSE IF ~isAfterLunch
             THEN addHoursSkippingLunchLoop(
                      setTime(result, lunchEndHour, lunchEndMinute), hoursAdded, hoursToAdd)
             ELSE addHoursSkippingLunchLoop(
                      plusMinutes(result, hoursToAdd - hoursAdded), hoursToAdd, hoursToAdd)

\* addHoursSkippingLunch counting the lunch break as working time.
addHoursSkippingLunch_noSkip(date, hoursToAdd) == plusMinutes(date, hoursToAdd)

addHoursSkippingLunch(date, hoursToAdd) == addHoursSkippingLunchLoop(date, 0, hoursToAdd)

\* The while loop of addWorkingHours, hours in minutes.
RECURSIVE addWorkingHoursLoop(_, _, _, _)
addWorkingHoursLoop(allHolidays, currentDate, hoursAdded, hoursToAdd) ==
    IF ~(hoursAdded < hoursToAdd) THEN currentDate
    ELSE LET remainingHours == calculateRemainingBusinessHours(currentDate)
             hoursToAddNow == Min(hoursToAdd - hoursAdded, remainingHours)
             moved == IF remainingHours > 0
                      THEN addHoursSkippingLunch(currentDate, hoursToAddNow)
                      ELSE currentDate
             added == IF remainingHours > 0 THEN hoursAdded + hoursToAddNow ELSE hoursAdded
         IN  IF added < hoursToAdd
             THEN addWorkingHoursLoop(allHolidays,
                      getNextWorkingDayStart(allHolidays, moved), added, hoursToAdd)
             ELSE addWorkingHoursLoop(allHolidays, moved, added, hoursToAdd)

\* addWorkingHours without the special case for one hour and no time left.
addWorkingHours_noShortcut(allHolidays, startDate, hoursToAdd) ==
    addWorkingHoursLoop(allHolidays, startDate, 0, hoursToAdd * 60)

\* addWorkingHours consuming the hour on the next working day in the special
\* case.
addWorkingHours_consumeHour(allHolidays, startDate, hoursToAdd) ==
    IF calculateRemainingBusinessHours(startDate) = 0 /\ hoursToAdd = 1
    THEN plusMinutes(getNextWorkingDayStart(allHolidays, startDate), 60)
    ELSE addWorkingHoursLoop(allHolidays, startDate, 0, hoursToAdd * 60)

\* addWorkingHours(startDate, hoursToAdd), hoursToAdd in whole hours.
addWorkingHours(allHolidays, startDate, hoursToAdd) ==
    IF calculateRemainingBusinessHours(startDate) = 0 /\ hoursToAdd = 1
    THEN getNextWorkingDayStart(allHolidays, startDate)
    ELSE addWorkingHoursLoop(allHolidays, startDate, 0, hoursToAdd * 60)

\* calculateWorkingDateTime adding the hours only when no days are added.
calculateWorkingDateTime_elseIf(allHolidays, days, hours, startDate) ==
    LET normalized ==
            IF ~isWorkingDay(allHolidays, startDate)
               \/ ~isWithinBusinessHours(utcToColombiaTime(startDate))
            THEN utcToColombiaTime(adjustToPreviousWorkingTime(allHolidays, startDate))
            ELSE utcToColombiaTime(startDate)
        afterDays ==
            IF days > 0 THEN addWorkingDays(allHolidays, normalized, days)
            ELSE normalized
        afterHours ==
            IF days > 0 THEN afterDays
            ELSE IF hours > 0 THEN addWorkingHours(allHolidays, afterDays, hours)
            ELSE afterDays
    IN  [normalized |-> normalized, afterDays |-> afterDays,
         result |-> colombiaTimeToUtc(afterHours)]

\* calculateWorkingDateTime(days, hours, startDate), on the holiday list its
\* working-day tests are answered from.  The value is the returned Date
\* (result) together with currentColombiaTime after the adjustment
\* (normalized) and after the days were added (afterDays).
calculateWorkingDateTime(allHolidays, days, hours, startDate) ==
    LET normalized ==
            IF ~isWorkingDay(allHolidays, startDate)
               \/ ~isWithinBusinessHours(utcToColombiaTime(startDate))
            THEN utcToColombiaTime(adjustToPreviousWorkingTime(allHolidays, startDate))
            ELSE utcToColombiaTime(startDate)
        afterDays ==
            IF days > 0 THEN addWorkingDays(allHolidays, normalized, days)
            ELSE normalized
        afterHours ==
            IF hours > 0 THEN addWorkingHours(allHolidays, afterDays, hours)
            ELSE afterDays
    IN  [normalized |-> normalized, afterDays |-> afterDays,
         result |-> colombiaTimeToUtc(afterHours)]

-----------------------------------------------------------------------------
(* schemas/validation.  A query string is the sequence of its characters; a  *)
(* query parameter is absent or present with a string.  A date string is     *)
(* kept as what the schema reads of it: whether it ends in 'Z' and the       *)
(* instant new Date(val) gives (NaN for an invalid date).                    *)

Absent == [present |-> FALSE, text |-> <<>>]
Param(text) == [present |-> TRUE, text |-> text]

undefined == [tag |-> "undefined", value |-> 0]
NaN == [tag |-> "NaN", value |-> 0]
Number(n) == [tag |-> "number", value |-> n]

Digits == <<"0", "1", "2", "3", "4", "5", "6", "7", "8", "9">>
IsDigit(ch) == \E i \in 1..10 : Digits[i] = ch
DigitValue(ch) == (CHOOSE i \in 1..10 : Digits[i] = ch) - 1

\* The value of the longest prefix of digits of a string, after acc; none: no
\* digit was read yet.
RECURSIVE parseDigits(_, _, _)
parseDigits(text, acc, none) ==
    IF text = <<>> \/ ~IsDigit(Head(text))
    THEN IF none THEN NaN ELSE Number(acc)
    ELSE parseDigits(Tail(text), acc * 10 + DigitValue(Head(text)), FALSE)

RECURSIVE trimStart(_)
trimStart(text) ==
    IF text # <<>> /\ Head(text) = " " THEN trimStart(Tail(text)) ELSE text

\* parseInt(val, 10): leading white space, an optional sign, then the digits
\* up to the first character that is not one; NaN when there is no digit.
parseInt(val) ==
    LET text == trimStart(val)
        signed == text # <<>> /\ Head(text) \in {"-", "+"}
        magnitude == parseDigits(IF signed THEN Tail(text) ELSE text, 0, TRUE)
    IN  IF magnitude.tag = "number" /\ signed /\ Head(text) = "-"
        THEN Number(0 - magnitude.value)
        ELSE magnitude

\* .transform((val) => val ? parseInt(val, 10) : undefined)
transformInt(param) ==
    IF param.present /\ param.text # <<>> THEN parseInt(param.text) ELSE undefined

\* .refine((val) => val === undefined || (Number.isInteger(val) && val >= 0))
refineInt(val) ==
    val.tag = "undefined" \/ (val.tag = "number" /\ val.value >= 0)

\* The refinement of date: absent, or ending in 'Z' and a valid date.
refineDate(param) ==
    IF ~param.present THEN TRUE
    ELSE IF ~param.text.endsWithZ THEN FALSE
    ELSE param.text.parsed.tag # "NaN"

\* workingDaysQuerySchema.safeParse(query)
safeValidateWorkingDaysQuery(query) ==
    LET days == transformInt(query.days)
        hours == transformInt(query.hours)
        fieldsOk == refineInt(days) /\ refineInt(hours) /\ refineDate(query.date)
        oneGiven == days.tag # "undefined" \/ hours.tag # "undefined"
    IN  [success |-> fieldsOk /\ oneGiven,
         data |-> [days |-> days, hours |-> hours, date |-> query.date]]

-----------------------------------------------------------------------------
(* middleware/errorHandler *)

ApiError(statusCode, message) ==
    [api |-> TRUE, statusCode |-> statusCode, message |-> message]

getErrorType(statusCode) ==
    CASE statusCode = 400 -> "BadRequest"
      [] statusCode = 401 -> "Unauthorized"
      [] statusCode = 403 -> "Forbidden"
      [] statusCode = 404 -> "NotFound"
      [] statusCode = 422 -> "InvalidParameters"
      [] statusCode = 429 -> "TooManyRequests"
      [] statusCode = 500 -> "InternalServerError"
      [] statusCode = 503 -> "ServiceUnavailable"
      [] OTHER -> "InternalServerError"

\* errorHandler answering every error with 500.
errorHandler_always500(err) ==
    [status |-> 500, error |-> "InternalServerError",
     message |-> "An unexpected error occurred"]

\* errorHandler(err, req, res, next): the response it sends.
errorHandler(err) ==
    IF err.api
    THEN [status |-> err.statusCode, error |-> getErrorType(err.statusCode),
          message |-> err.message]
    ELSE [status |-> 500, error |-> "InternalServerError",
          message |-> "An unexpected error occurred"]

-----------------------------------------------------------------------------
(* The program as a state machine *)

\* The dates the served list may hold: 2025-01-01, 2025-01-02, 2025-01-06.
HolidayCandidates == {CivilDay(2025, 1, 1), CivilDay(2025, 1, 2), CivilDay(2025, 1, 6)}

\* Offsets (minutes east of UTC) of the zones the server process may run in:
\* America/Bogota, UTC.
TimeZones == {0 - BogotaOffsetMinutes, 0}

\* Local times of day of the anchors.
AnchorTimes == { <<7, 30>>, <<8, 0>>, <<9, 15>>, <<11, 0>>, <<11, 30>>, <<12, 0>>,
                 <<12, 30>>, <<13, 0>>, <<13, 30>>, <<15, 0>>, <<16, 0>>, <<17, 0>>,
                 <<17, 30>>, <<19, 0>>, <<21, 45>> }

\* The instants requests are made for.
Anchors == { toJSDate(DateTime(d, t[1], t[2])) : d \in 1..MaxAnchorDay, t \in AnchorTimes }

Idle == [kind |-> "none"]

\* The instants isHoliday is asked about in a lookup sequence: 2025-01-01 and
\* 2025-01-03, 15:00 UTC.
LookupDates == {CivilDay(2025, 1, 1) * MinutesPerDay + 15 * 60,
                CivilDay(2025, 1, 3) * MinutesPerDay + 15 * 60}

\* The years fetchHolidays is asked for.
FetchYears == {2024, 2025}

\* The callers of fetchAllHolidays, and a caller that is not inside it.
Callers == 1..MaxCallers

NotCalling == [pc |-> "idle"]

Init ==
    /\ provider \in SUBSET HolidayCandidates
    /\ allHolidaysCache = NULL
    /\ op = Idle
    /\ calls = [c \in Callers |-> NotCalling]
    /\ holidaysCache = [year \in FetchYears |-> NULL]
    /\ requests = 0

\* HolidayService.clearCache(); enabled when it changes something.
clearCache ==
    /\ op = Idle
    /\ \/ allHolidaysCache # NULL
       \/ \E year \in FetchYears : holidaysCache[year] # NULL
       \/ requests # 0
    /\ allHolidaysCache' = NULL
    /\ holidaysCache' = [year \in FetchYears |-> NULL]
    /\ requests' = 0
    /\ UNCHANGED <<provider, op, calls>>

\* What isHoliday answers from when fetchAllHolidays gave f: its catch block
\* answers false for every date.
holidayView(f) == IF f.threw THEN {} ELSE f.value

\* holidayService.isHoliday(date); up: whether the request to the holiday URL,
\* if one is made, succeeds.
IsHoliday(date, up) ==
    /\ op = Idle
    /\ allHolidaysCache # NULL => up
    /\ LET f == fetchAllHolidays(allHolidaysCache, up, provider)
       IN  /\ allHolidaysCache' = f.cache
           /\ op' = [kind |-> "isHoliday", date |-> date, fetch |-> f,
                     failed |-> ~up,
                     result |-> isHoliday(holidayView(f), date)]
    /\ UNCHANGED <<provider, calls, holidaysCache, requests>>

\* isWorkingDay(date): a weekend day is answered without a holiday lookup.
IsWorkingDay(date, up) ==
    /\ op = Idle
    /\ allHolidaysCache # NULL => up
    /\ LET f == fetchAllHolidays(allHolidaysCache, up, provider)
           weekend == weekday(utcToColombiaTime(date).day) \in {6, 7}
       IN  /\ weekend => up
           /\ allHolidaysCache' = IF weekend THEN allHolidaysCache ELSE f.cache
           /\ op' = [kind |-> "isWorkingDay", date |-> date, view |-> holidayView(f),
                     result |-> isWorkingDay(holidayView(f), date)]
    /\ UNCHANGED <<provider, calls, holidaysCache, requests>>

\* workingDaysService.calculateWorkingDateTime(days, hours, startDate).  Every
\* run makes a holiday lookup (the adjustment of a weekend anchor ends on one);
\* the holiday URL is up or down for the whole run, so that all the lookups of
\* the run are answered from one list.
Calculate(days, hours, startDate, up) ==
    /\ op = Idle
    /\ allHolidaysCache # NULL => up
    /\ LET f == fetchAllHolidays(allHolidaysCache, up, provider)
       IN  /\ allHolidaysCache' = f.cache
           /\ op' = [kind |-> "calculate", days |-> days, hours |-> hours,
                     startDate |-> startDate, fetch |-> f, view |-> holidayView(f),
                     failed |-> ~up,
                     run |-> calculateWorkingDateTime(holidayView(f), days, hours, startDate)]
    /\ UNCHANGED <<provider, calls, holidaysCache, requests>>

\* The caller takes the answer.
Return ==
    /\ op # Idle
    /\ op' = Idle
    /\ UNCHANGED <<provider, allHolidaysCache, calls, holidaysCache, requests>>

Next ==
    \/ clearCache
    \/ \E date \in Anchors, up \in BOOLEAN : IsHoliday(date, up)
    \/ \E date \in Anchors, up \in BOOLEAN : IsWorkingDay(date, up)
    \/ \E days \in 0..MaxDays, hours \in 0..MaxHours, startDate \in Anchors, up \in BOOLEAN :
           Calculate(days, hours, startDate, up)
    \/ Return

Spec == Init /\ [][Next]_vars

-----------------------------------------------------------------------------
(* The service called directly, past the request validation *)

NextDirect ==
    \/ \E days \in (0 - MaxDays)..MaxDays, hours \in (0 - MaxDays)..MaxDays,
          startDate \in Anchors, up \in BOOLEAN :
           Calculate(days, hours, startDate, up)
    \/ Return

SpecDirect == Init /\ [][NextDirect]_vars

-----------------------------------------------------------------------------
(* Sequences of holiday lookups, one after the other *)

\* holidayService.isHoliday(date) in a lookup sequence.
LookupIsHoliday(date, up) ==
    /\ op = Idle
    /\ allHolidaysCache # NULL => up
    /\ allHolidaysCache = NULL => requests < MaxRequests
    /\ LET f == fetchAllHolidays(allHolidaysCache, up, provider)
           requested == allHolidaysCache = NULL
       IN  /\ allHolidaysCache' = f.cache
           /\ requests' = IF requested THEN requests + 1 ELSE requests
           /\ op' = [kind |-> "lookup", name |-> "isHoliday", before |-> requests,
                     requested |-> requested,
                     result |-> isHoliday(holidayView(f), date)]
    /\ UNCHANGED <<provider, calls, holidaysCache>>

\* holidayService.fetchHolidays(year) in a lookup sequence, in a server
\* process of the given zone.
LookupFetchHolidays(zone, year, up) ==
    /\ op = Idle
    /\ (allHolidaysCache # NULL \/ holidaysCache[year] # NULL) => up
    /\ (allHolidaysCache = NULL /\ holidaysCache[year] = NULL) => requests < MaxRequests
    /\ IF holidaysCache[year] # NULL
       THEN /\ op' = [kind |-> "lookup", name |-> "fetchHolidays", before |-> requests,
                      requested |-> FALSE, result |-> holidaysCache[year][1]]
            /\ UNCHANGED <<allHolidaysCache, holidaysCache, requests>>
       ELSE LET f == fetchAllHolidays(allHolidaysCache, up, provider)
                requested == allHolidaysCache = NULL
                entry == fetchHolidaysEntry(zone, f, year)
            IN  /\ allHolidaysCache' = f.cache
                /\ holidaysCache' = [holidaysCache EXCEPT ![year] = <<entry>>]
                /\ requests' = IF requested THEN requests + 1 ELSE requests
                /\ op' = [kind |-> "lookup", name |-> "fetchHolidays",
                          before |-> requests, requested |-> requested,
                          result |-> entry]
    /\ UNCHANGED <<provider, calls>>

NextLookups ==
    \/ clearCache
    \/ \E date \in LookupDates, up \in BOOLEAN : LookupIsHoliday(date, up)
    \/ \E zone \in TimeZones, year \in FetchYears, up \in BOOLEAN :
           LookupFetchHolidays(zone, year, up)
    \/ Return

SpecLookups == Init /\ [][NextLookups]_vars

-----------------------------------------------------------------------------
(* The business-hours predicate at every minute of a day *)

\* isWithinBusinessHours(date)
IsWithinBusinessHours(date) ==
    /\ op = Idle
    /\ op' = [kind |-> "isWithinBusinessHours", date |-> date,
              result |-> isWithinBusinessHours(date)]
    /\ UNCHANGED <<provider, allHolidaysCache, calls, holidaysCache, requests>>

NextClock ==
    \/ \E day \in 1..MaxAnchorDay, hour \in 0..23, minute \in 0..59 :
           IsWithinBusinessHours(DateTime(day, hour, minute))
    \/ Return

SpecClock == Init /\ [][NextClock]_vars

-----------------------------------------------------------------------------
(* The backward adjustment on its own *)

\* adjustToPreviousWorkingTime(date); the search ends on a working-day test
\* that reaches the holiday lookup, so every run fetches the list.
AdjustToPreviousWorkingTime(date, up) ==
    /\ op = Idle
    /\ allHolidaysCache # NULL => up
    /\ LET f == fetchAllHolidays(allHolidaysCache, up, provider)
       IN  /\ allHolidaysCache' = f.cache
           /\ op' = [kind |-> "adjustToPreviousWorkingTime", date |-> date,
                     view |-> holidayView(f),
                     result |-> adjustToPreviousWorkingTime(holidayView(f), date)]
    /\ UNCHANGED <<provider, calls, holidaysCache, requests>>

NextAdjust ==
    \/ clearCache
    \/ \E date \in Anchors, up \in BOOLEAN : AdjustToPreviousWorkingTime(date, up)
    \/ Return

SpecAdjust == Init /\ [][NextAdjust]_vars

-----------------------------------------------------------------------------
(* The local holiday computation, year by year *)

Years == MinYear..MaxYear

\* calculateColombianHolidays(year) in a server process of the given zone.
CalculateColombianHolidays(zone, year) ==
    /\ op = Idle
    /\ op' = [kind |-> "calculateColombianHolidays", zone |-> zone, year |-> year,
              holidays |-> calculateColombianHolidays(zone, year)]
    /\ UNCHANGED <<provider, allHolidaysCache, calls, holidaysCache, requests>>

NextHolidays ==
    \/ \E zone \in TimeZones, year \in Years : CalculateColombianHolidays(zone, year)
    \/ Return

SpecHolidays == Init /\ [][NextHolidays]_vars

-----------------------------------------------------------------------------
(* controllers/workingDaysController: GET /api/working-days *)

\* Values of the days and hours parameters: absent, "", "0", "1", "3", "-1",
\* "1.5", "abc", "2x".
QueryValues ==
    { Absent, Param(<<>>), Param(<<"0">>), Param(<<"1">>), Param(<<"3">>),
      Param(<<"-", "1">>), Param(<<"1", ".", "5">>), Param(<<"a", "b", "c">>),
      Param(<<"2", "x">>) }

\* The instants the date parameter names: Friday 3 January 2025 11:00 and
\* Tuesday 31 December 2024 19:00, Bogota time.
RequestInstants == {toJSDate(DateTime(4, 11, 0)), toJSDate(DateTime(1, 19, 0))}

\* Values of the date parameter: absent, an ISO instant with 'Z', the same
\* without 'Z', "invalid-date", "invalid-dateZ".
DateValues ==
    {[present |-> FALSE, text |-> [endsWithZ |-> FALSE, parsed |-> NaN]]}
    \cup {[present |-> TRUE, text |-> [endsWithZ |-> z, parsed |-> Number(t)]] :
              z \in BOOLEAN, t \in RequestInstants}
    \cup {[present |-> TRUE, text |-> [endsWithZ |-> z, parsed |-> NaN]] : z \in BOOLEAN}

Queries == [days : QueryValues, hours : QueryValues, date : DateValues]

\* new Date() when the request names no date.
Clock == {toJSDate(DateTime(1, 9, 15))}

\* Messages of the errors the calculation may reject with.
ServiceErrors == {"Failed to fetch holidays", "API Error", "Invalid time value"}

\* errorMessage.includes('failed to fetch') || errorMessage.includes('api error')
mentionsProviderFailure(message) ==
    message \in {"Failed to fetch holidays", "API Error"}

\* The request fails validation: createError.badRequest is thrown before the
\* service is called, and errorHandler answers.
BadRequest(query) ==
    /\ op = Idle
    /\ LET validationResult == safeValidateWorkingDaysQuery(query)
       IN  /\ ~validationResult.success
           /\ op' = [kind |-> "request", query |-> query,
                     validation |-> validationResult,
                     invoked |-> FALSE, threw |-> FALSE,
                     response |-> errorHandler(ApiError(400, "Validation error"))]
    /\ UNCHANGED <<provider, allHolidaysCache, calls, holidaysCache, requests>>

\* The request is valid and the calculation returns: 200 with the date.
Responded(query, up, now) ==
    /\ op = Idle
    /\ allHolidaysCache # NULL => up
    /\ LET validationResult == safeValidateWorkingDaysQuery(query)
           data == validationResult.data
           days == IF data.days.tag = "undefined" THEN 0 ELSE data.days.value
           hours == IF data.hours.tag = "undefined" THEN 0 ELSE data.hours.value
           startDate == IF data.date.present THEN data.date.text.parsed.value ELSE now
           f == fetchAllHolidays(allHolidaysCache, up, provider)
           run == calculateWorkingDateTime(holidayView(f), days, hours, startDate)
       IN  /\ validationResult.success
           /\ allHolidaysCache' = f.cache
           /\ op' = [kind |-> "request", query |-> query,
                     validation |-> validationResult,
                     invoked |-> TRUE, threw |-> FALSE,
                     days |-> days, hours |-> hours, startDate |-> startDate,
                     view |-> holidayView(f), run |-> run,
                     response |-> [status |-> 200, date |-> run.result]]
    /\ UNCHANGED <<provider, calls, holidaysCache, requests>>

\* The request is valid and the calculation rejects: the catch block throws
\* serviceUnavailable or internal, and errorHandler answers.
CalculationFailed(query, message) ==
    /\ op = Idle
    /\ LET validationResult == safeValidateWorkingDaysQuery(query)
           thrown == IF mentionsProviderFailure(message)
                     THEN ApiError(503, "Holiday service is temporarily unavailable")
                     ELSE ApiError(500, "An error occurred while calculating working days")
       IN  /\ validationResult.success
           /\ op' = [kind |-> "request", query |-> query,
                     validation |-> validationResult,
                     invoked |-> TRUE, threw |-> TRUE,
                     response |-> errorHandler(thrown)]
    /\ UNCHANGED <<provider, allHolidaysCache, calls, holidaysCache, requests>>

NextRequest ==
    \/ \E query \in Queries : BadRequest(query)
    \/ \E query \in Queries, up \in BOOLEAN, now \in Clock : Responded(query, up, now)
    \/ \E query \in Queries, message \in ServiceErrors : CalculationFailed(query, message)
    \/ Return

SpecRequest == Init /\ [][NextRequest]_vars

-----------------------------------------------------------------------------
(* fetchAllHolidays step by step: callers interleave at its await *)

\* fetchAllHolidays up to the await: the cached list if there is one, else the
\* request is sent.  early: no response had arrived when the call started.
FetchStart(c) ==
    /\ calls[c].pc = "idle"
    /\ LET early == \A d \in Callers : calls[d].pc # "done"
       IN  calls' = [calls EXCEPT ![c] =
                        IF allHolidaysCache # NULL
                        THEN [pc |-> "done", early |-> early, requested |-> FALSE,
                              value |-> allHolidaysCache[1]]
                        ELSE [pc |-> "awaiting", early |-> early, requested |-> TRUE]]
    /\ UNCHANGED <<provider, allHolidaysCache, op, holidaysCache, requests>>

\* The request of a caller resolves: the list is cached and returned.
FetchResolve(c) ==
    /\ calls[c].pc = "awaiting"
    /\ LET response == httpGet(TRUE, provider)
           holidays == response.data
       IN  /\ allHolidaysCache' = <<holidays>>
           /\ calls' = [calls EXCEPT ![c] =
                            [pc |-> "done", early |-> calls[c].early,
                             requested |-> TRUE, value |-> holidays]]
    /\ UNCHANGED <<provider, op, holidaysCache, requests>>

\* The request of a caller rejects: [] is returned, nothing is cached.
FetchReject(c) ==
    /\ calls[c].pc = "awaiting"
    /\ ~httpGet(FALSE, provider).ok
    /\ calls' = [calls EXCEPT ![c] =
                     [pc |-> "done", early |-> calls[c].early,
                      requested |-> TRUE, value |-> {}]]
    /\ UNCHANGED <<provider, allHolidaysCache, op, holidaysCache, requests>>

NextFetch ==
    \/ \E c \in Callers : FetchStart(c)
    \/ \E c \in Callers : FetchResolve(c)
    \/ \E c \in Callers : FetchReject(c)

SpecFetch == Init /\ [][NextFetch]_vars

-----------------------------------------------------------------------------
(* fetchHolidays step by step: callers interleave at the await of           *)
(* fetchAllHolidays.  Every call of a process runs in the zone of the        *)
(* process.                                                                  *)

\* fetchHolidays(year) up to the await: the cached entry of the year if there
\* is one; else fetchAllHolidays is entered, which answers from its cache or
\* sends the request.
FetchHolidaysStart(c, zone, year) ==
    /\ calls[c].pc = "idle"
    /\ \A d \in Callers : calls[d].pc # "idle" => calls[d].zone = zone
    /\ IF holidaysCache[year] # NULL
       THEN /\ calls' = [calls EXCEPT ![c] =
                            [pc |-> "done", zone |-> zone, year |-> year,
                             value |-> holidaysCache[year][1]]]
            /\ UNCHANGED <<allHolidaysCache, holidaysCache>>
       ELSE IF allHolidaysCache # NULL
       THEN LET f == fetchAllHolidays(allHolidaysCache, TRUE, provider)
                entry == fetchHolidaysEntry(zone, f, year)
            IN  /\ holidaysCache' = [holidaysCache EXCEPT ![year] = <<entry>>]
                /\ calls' = [calls EXCEPT ![c] =
                                [pc |-> "done", zone |-> zone, year |-> year,
                                 value |-> entry]]
                /\ UNCHANGED allHolidaysCache
       ELSE /\ calls' = [calls EXCEPT ![c] =
                            [pc |-> "awaiting", zone |-> zone, year |-> year]]
            /\ UNCHANGED <<allHolidaysCache, holidaysCache>>
    /\ UNCHANGED <<provider, op, requests>>

\* The request of a caller is answered (up: it resolves): fetchAllHolidays
\* returns, and fetchHolidays sets the entry of the year and returns it.
FetchHolidaysSettle(c, up) ==
    /\ calls[c].pc = "awaiting"
    /\ LET f == fetchAllHolidays(NULL, up, provider)
           entry == fetchHolidaysEntry(calls[c].zone, f, calls[c].year)
       IN  /\ allHolidaysCache' = IF f.cache # NULL THEN f.cache ELSE allHolidaysCache
           /\ holidaysCache' = [holidaysCache EXCEPT ![calls[c].year] = <<entry>>]
           /\ calls' = [calls EXCEPT ![c] =
                            [pc |-> "done", zone |-> calls[c].zone,
                             year |-> calls[c].year, value |-> entry]]
    /\ UNCHANGED <<provider, op, requests>>

NextYearCache ==
    \/ clearCache
    \/ \E c \in Callers, zone \in TimeZones, year \in FetchYears :
           FetchHolidaysStart(c, zone, year)
    \/ \E c \in Callers, up \in BOOLEAN : FetchHolidaysSettle(c, up)

SpecYearCache == Init /\ [][NextYearCache]_vars

-----------------------------------------------------------------------------
(* One calculation, await by await.  calculateWorkingDateTime is an async   *)
(* function: it runs synchronously from one await to the next, and every     *)
(* await of isWorkingDay on a weekday runs fetchAllHolidays, which answers   *)
(* from the cache or sends a request of its own.  op is the frame of the     *)
(* running call: where it waits (pc), its parameters, the candidate          *)
(* (currentDate; nextDay inside getNextWorkingDayStart), the loop counters,  *)
(* the iterations the search loop under way has made (steps), and the        *)
(* holiday lists its working-day tests were answered from (views).           *)

\* The anchors, and the hours, of the calculations followed await by await.
SearchTimes == { <<7, 30>>, <<11, 0>>, <<12, 30>>, <<16, 0>>, <<19, 0>> }
SearchAnchors == { toJSDate(DateTime(d, t[1], t[2])) : d \in 1..MaxAnchorDay, t \in SearchTimes }
SearchHours == {0, 1, 5, MaxHours}

\* previousDayEnd staying on the same day.
previousDayEnd_sameDay(currentDate) == setTime(currentDate, endHour, endMinute)

\* adjustToPreviousWorkingTime: the end of the business day one day back.
previousDayEnd(currentDate) == setTime(minusDays(currentDate, 1), endHour, endMinute)

\* getNextWorkingDayStart: the start of business one day on.
nextDayStart(date) == setTime(plusDays(date, 1), startHour, startMinute)

\* adjustToPreviousWorkingTime on a working day outside business hours and
\* not before their start: after the end to the end, in the lunch break to
\* its start.
adjustWithinDay(currentDate) ==
    LET afterEnd ==
            IF \/ currentDate.hour > endHour
               \/ (currentDate.hour = endHour /\ currentDate.minute > endMinute)
            THEN setTime(currentDate, endHour, endMinute)
            ELSE currentDate
    IN  IF /\ \/ afterEnd.hour > lunchStartHour
              \/ (afterEnd.hour = lunchStartHour /\ afterEnd.minute >= lunchStartMinute)
           /\ \/ afterEnd.hour < lunchEndHour
              \/ (afterEnd.hour = lunchEndHour /\ afterEnd.minute < lunchEndMinute)
        THEN setTime(afterEnd, lunchStartHour, lunchStartMinute)
        ELSE afterEnd

\* await isWorkingDay(date) with the cache as it is now: the answer, the cache
\* after it, and the list the answer was taken from (none on a weekend day,
\* which is answered without a lookup).
workingDayTest(cache, up, data, date) ==
    LET f == fetchAllHolidays(cache, up, data)
        weekend == weekday(utcToColombiaTime(date).day) \in {6, 7}
    IN  [answer |-> isWorkingDay(holidayView(f), date),
         cache |-> IF weekend THEN cache ELSE f.cache,
         views |-> IF weekend THEN {} ELSE {holidayView(f)}]

\* calculateWorkingDateTime returns (f: the frame, worked out once).
finish(frame) ==
    CHOOSE next \in { [f EXCEPT !.kind = "finished", !.pc = "done",
                                !.result = colombiaTimeToUtc(f.currentDate)] :
                      f \in {frame} } : TRUE

\* One pass of the while loop of addWorkingHours, entered with hours still to
\* add: up to the await of getNextWorkingDayStart or to the return.
hoursLoop(frame) ==
    LET hoursToAdd == frame.hours * 60
        remainingHours == calculateRemainingBusinessHours(frame.currentDate)
        hoursToAddNow == Min(hoursToAdd - frame.hoursAdded, remainingHours)
        moved == IF remainingHours > 0
                 THEN addHoursSkippingLunch(frame.currentDate, hoursToAddNow)
                 ELSE frame.currentDate
        added == IF remainingHours > 0 THEN frame.hoursAdded + hoursToAddNow
                 ELSE frame.hoursAdded
    IN  IF added < hoursToAdd
        THEN [frame EXCEPT !.pc = "nextStart", !.currentDate = nextDayStart(moved),
                           !.hoursAdded = added, !.steps = 0]
        ELSE finish([frame EXCEPT !.currentDate = moved, !.hoursAdded = added])

\* calculateWorkingDateTime from "if (hours > 0)" on.
enterHours(frame) ==
    IF frame.hours > 0
    THEN IF calculateRemainingBusinessHours(frame.currentDate) = 0 /\ frame.hours = 1
         THEN [frame EXCEPT !.pc = "shortcut",
                            !.currentDate = nextDayStart(frame.currentDate), !.steps = 0]
         ELSE hoursLoop(frame)
    ELSE finish(frame)

\* The head of the while loop of addWorkingDays (not entered unless days > 0):
\* one day on and into the inner loop, or on to the hours (f: the frame,
\* worked out once).
daysLoop(frame) ==
    CHOOSE next \in { IF f.daysAdded < f.days
                      THEN [f EXCEPT !.pc = "daySkip",
                                     !.currentDate = plusDays(f.currentDate, 1),
                                     !.steps = 0]
                      ELSE enterHours(f) :
                      f \in {frame} } : TRUE

\* adjustToPreviousWorkingTime once its loop has found a working day: before
\* the start of business it calls itself on the end of the day before, else
\* it returns the instant moved into business hours.
adjustOnWorkingDay(frame) ==
    LET currentDate == frame.currentDate
    IN  IF ~isWithinBusinessHours(currentDate)
        THEN IF \/ currentDate.hour < startHour
                \/ (currentDate.hour = startHour /\ currentDate.minute < startMinute)
             THEN [frame EXCEPT !.pc = "adjust",
                                !.currentDate = utcToColombiaTime(colombiaTimeToUtc(
                                                    previousDayEnd(currentDate))),
                                !.steps = @ + 1]
             ELSE daysLoop([frame EXCEPT !.currentDate = utcToColombiaTime(
                                      colombiaTimeToUtc(adjustWithinDay(currentDate)))])
        ELSE daysLoop([frame EXCEPT !.currentDate = utcToColombiaTime(
                                 colombiaTimeToUtc(currentDate))])

\* The frame after the await it waits at was answered.
resume(frame, answer) ==
    CASE frame.pc = "entry" ->
             LET currentColombiaTime == utcToColombiaTime(frame.startDate)
             IN  IF ~answer \/ ~isWithinBusinessHours(currentColombiaTime)
                 THEN [frame EXCEPT !.pc = "adjust", !.currentDate = currentColombiaTime,
                                    !.steps = 0]
                 ELSE daysLoop([frame EXCEPT !.currentDate = currentColombiaTime])
      [] frame.pc = "adjust" ->
             IF ~answer
             THEN [frame EXCEPT !.currentDate = previousDayEnd(frame.currentDate),
                                !.steps = @ + 1]
             ELSE adjustOnWorkingDay(frame)
      [] frame.pc = "daySkip" ->
             IF ~answer
             THEN [frame EXCEPT !.currentDate = plusDays(frame.currentDate, 1),
                                !.steps = @ + 1]
             ELSE daysLoop([frame EXCEPT !.daysAdded = @ + 1])
      [] frame.pc = "nextStart" ->
             IF ~answer
             THEN [frame EXCEPT !.currentDate = nextDayStart(frame.currentDate),
                                !.steps = @ + 1]
             ELSE hoursLoop(frame)
      [] frame.pc = "shortcut" ->
             IF ~answer
             THEN [frame EXCEPT !.currentDate = nextDayStart(frame.currentDate),
                                !.steps = @ + 1]
             ELSE finish(frame)

\* The instant the await of a frame asks isWorkingDay about.
tested(frame) ==
    IF frame.pc = "entry" THEN frame.startDate ELSE toJSDate(frame.currentDate)

\* calculateWorkingDateTime(days, hours, startDate) is called and runs to its
\* first await.
Start(days, hours, startDate) ==
    /\ op = Idle
    /\ op' = [kind |-> "running", pc |-> "entry", days |-> days, hours |-> hours,
              startDate |-> startDate, currentDate |-> utcToColombiaTime(startDate),
              daysAdded |-> 0, hoursAdded |-> 0, steps |-> 0, views |-> {},
              result |-> 0]
    /\ UNCHANGED <<provider, allHolidaysCache, calls, holidaysCache, requests>>

\* The await the call waits at is answered (up: the request to the holiday
\* URL, if one is sent, succeeds) and the call runs to its next await or to
\* its return.
Step(up) ==
    /\ op.kind = "running"
    /\ LET date == tested(op)
           weekend == weekday(utcToColombiaTime(date).day) \in {6, 7}
       IN  /\ (allHolidaysCache # NULL \/ weekend) => up
           /\ \E test \in {workingDayTest(allHolidaysCache, up, provider, date)} :
                  /\ allHolidaysCache' = test.cache
                  /\ \E frame \in {[op EXCEPT !.views = @ \cup test.views]} :
                         op' = resume(frame, test.answer)
    /\ UNCHANGED <<provider, calls, holidaysCache, requests>>

\* Another request's holiday lookup is answered by the holiday URL while the
\* call waits.
ConcurrentLookup ==
    /\ op.kind = "running"
    /\ allHolidaysCache = NULL
    /\ allHolidaysCache' = fetchAllHolidays(allHolidaysCache, TRUE, provider).cache
    /\ UNCHANGED <<provider, op, calls, holidaysCache, requests>>

\* The call has returned and the caller takes the result.
Returned ==
    /\ op.kind = "finished"
    /\ op' = Idle
    /\ UNCHANGED <<provider, allHolidaysCache, calls, holidaysCache, requests>>

NextSteps ==
    \/ clearCache
    \/ \E days \in 0..MaxDays, hours \in SearchHours, startDate \in SearchAnchors :
           Start(days, hours, startDate)
    \/ \E up \in BOOLEAN : Step(up)
    \/ ConcurrentLookup
    \/ Returned

SpecSteps == Init /\ [][NextSteps]_vars

\* The event loop resumes a call whose await was settled, and every request
\* to the holiday URL is settled (answered, refused or timed out).
SpecStepsFair == SpecSteps /\ WF_vars(\E up \in BOOLEAN : Step(up))

-----------------------------------------------------------------------------
(* One calculation, await by await, on a corrupted holiday list that marks   *)
(* every day around the anchors a holiday.                                   *)

\* The steps a search for a working day may take before it has to give up.
IterationCap == 400

\* The corrupted list: every day from well before the anchors to well after.
CorruptedHolidays == (0 - IterationCap - 4)..(MaxAnchorDay + IterationCap + 4)

\* The anchors of the calculations on the corrupted list: Wednesday
\* 2025-01-01 11:00 and Saturday 2025-01-04 11:00, Bogota time.
ExhaustedAnchors == { toJSDate(DateTime(CivilDay(2025, 1, 1), 11, 0)),
                      toJSDate(DateTime(CivilDay(2025, 1, 4), 11, 0)) }

InitExhausted ==
    /\ provider = CorruptedHolidays
    /\ allHolidaysCache = NULL
    /\ op = Idle
    /\ calls = [c \in Callers |-> NotCalling]
    /\ holidaysCache = [year \in FetchYears |-> NULL]
    /\ requests = 0

NextExhausted ==
    \/ \E days \in 0..1, hours \in 0..1, startDate \in ExhaustedAnchors :
           Start(days, hours, startDate)
    \/ Step(TRUE)
    \/ Returned

SpecExhausted == InitExhausted /\ [][NextExhausted]_vars

-----------------------------------------------------------------------------
(* What the claims speak of, stated apart from the code above *)

DayStart == startHour * 60 + startMinute
DayEnd == endHour * 60 + endMinute
LunchStart == lunchStartHour * 60 + lunchStartMinute
LunchEnd == lunchEndHour * 60 + lunchEndMinute

\* The Bogota-local civil day and minute of the day of an instant.
LocalReading(date) ==
    [day |-> (date - BogotaOffsetMinutes) \div MinutesPerDay,
     tod |-> (date - BogotaOffsetMinutes) % MinutesPerDay]

\* The same of a DateTime.
Reading(dt) == [day |-> dt.day, tod |-> dt.hour * 60 + dt.minute]

\* Saturday or Sunday (civil day 0 is a Monday).
IsWeekend(day) == day % 7 \in {5, 6}

\* Monday to Friday and not in the holiday set.
WorkingCivilDay(holidays, day) == ~IsWeekend(day) /\ day \notin holidays

\* 08:00 <= t <= 17:00 and not 12:00 <= t <= 13:00.
InBusinessHours(tod) ==
    /\ DayStart <= tod /\ tod <= DayEnd
    /\ ~(LunchStart <= tod /\ tod <= LunchEnd)

\* The first working day strictly after a civil day.
NextWorkingDay(holidays, day) ==
    CHOOSE d \in (day + 1)..(day + Cardinality(holidays) + 3) :
        /\ WorkingCivilDay(holidays, d)
        /\ \A e \in (day + 1)..(d - 1) : ~WorkingCivilDay(holidays, e)

\* The n-th working day strictly after a civil day, n >= 1.
NthWorkingDayAfter(holidays, day, n) ==
    CHOOSE d \in (day + 1)..(day + 3 * n + Cardinality(holidays) + 2) :
        /\ WorkingCivilDay(holidays, d)
        /\ Cardinality({e \in (day + 1)..d : WorkingCivilDay(holidays, e)}) = n

\* Business minutes left in the day at a time of day.
RemainingToday(tod) ==
    IF InBusinessHours(tod)
    THEN (DayEnd - tod) - (IF tod < LunchStart THEN LunchEnd - LunchStart ELSE 0)
    ELSE 0

\* A time of day advanced by m business minutes that fit in the day.
AdvanceWithinDay(tod, m) ==
    IF tod < LunchStart /\ tod + m > LunchStart
    THEN tod + m + (LunchEnd - LunchStart)
    ELSE tod + m

\* m business minutes consumed from a reading: what fits today, the rest from
\* 08:00 of the next working day on.
RECURSIVE CarryOver(_, _, _, _)
CarryOver(holidays, day, tod, m) ==
    IF m <= RemainingToday(tod)
    THEN [day |-> day, tod |-> AdvanceWithinDay(tod, m)]
    ELSE CarryOver(holidays, NextWorkingDay(holidays, day), DayStart,
                   m - RemainingToday(tod))

\* The calendar year of a civil day of the window.
YearOf(day) ==
    CHOOSE y \in 2024..2026 : CivilDay(y, 1, 1) <= day /\ day < CivilDay(y + 1, 1, 1)

\* The dates calculateColombianHolidays gives for a year.
LocalHolidays(zone, year) ==
    LET list == calculateColombianHolidays(zone, year)
    IN  {list[n] : n \in 1..Len(list)}

Calculated == op.kind = "calculate"

-----------------------------------------------------------------------------
(* Claims *)

\* C1: the instant calculateWorkingDateTime returns has a Bogota-local weekday
\* of Monday-Friday, a local civil date that is not a holiday, and a local time
\* of day in business hours (08:00 <= t <= 17:00, not 12:00 <= t <= 13:00).
C1_ResultIsValid ==
    Calculated =>
        LET r == LocalReading(op.run.result)
        IN  WorkingCivilDay(op.view, r.day) /\ InBusinessHours(r.tod)

\* C2: isWorkingDay(instant) is false exactly when the Bogota-local weekday is
\* Saturday or Sunday or the Bogota-local civil date is a holiday, at every
\* local time of day.
C2_WorkingDayByLocalDate ==
    op.kind = "isWorkingDay" =>
        op.result = WorkingCivilDay(op.view, LocalReading(op.date).day)

\* C3: isHoliday(date) is true if the date is in the external set; when the
\* external set has no entry for the date's year (also when the fetch failed),
\* it answers membership in the locally computed set of that year.
C3_LocalFallback ==
    op.kind = "isHoliday" =>
        \A zone \in TimeZones :
            LET dateStr == toISODate(op.date)
                external == op.fetch.value
                ofYear == {h \in external : YearOf(h) = YearOf(dateStr)}
            IN  op.result = IF ofYear = {}
                            THEN dateStr \in LocalHolidays(zone, YearOf(dateStr))
                            ELSE dateStr \in external

C5_Identity ==
    (Calculated /\ op.days = 0 /\ op.hours = 0) =>
        LET r == LocalReading(op.startDate)
        IN  /\ colombiaTimeToUtc(utcToColombiaTime(op.startDate)) = op.startDate
            /\ IF WorkingCivilDay(op.view, r.day) /\ InBusinessHours(r.tod)
               THEN op.run.result = op.startDate
               ELSE op.run.result = adjustToPreviousWorkingTime(op.view, op.startDate)

C5_Witness ==
    /\ Calculated /\ op.days = 0 /\ op.hours = 0
    /\ op.view # {}
    /\ WorkingCivilDay(op.view, LocalReading(op.startDate).day)
    /\ InBusinessHours(LocalReading(op.startDate).tod)
    /\ op.run.result = op.startDate

C7_NthWorkingDay ==
    (Calculated /\ op.days >= 1) =>
        LET start == op.run.normalized
        IN  /\ op.run.afterDays =
                   DateTime(NthWorkingDayAfter(op.view, start.day, op.days),
                            start.hour, start.minute)
            /\ \A n \in 1..op.days :
                   localMinutes(addWorkingDays(op.view, start, n + 1))
                       > localMinutes(addWorkingDays(op.view, start, n))

C7_Witness ==
    /\ Calculated /\ op.days = 1
    /\ op.view = {CivilDay(2025, 1, 1), CivilDay(2025, 1, 2)}
    /\ Reading(op.run.normalized) = [day |-> CivilDay(2024, 12, 31), tod |-> 9 * 60 + 15]
    /\ Reading(op.run.afterDays) = [day |-> CivilDay(2025, 1, 3), tod |-> 9 * 60 + 15]

\* C8: hours added from a working-day time t, 08:00 <= t < 12:00, that fit in
\* the rest of the day end on the same civil day at t + h when t + h does not
\* pass 12:00 and at t + h + 1 hour when it does (11:30 + 3 hours = 15:30,
\* 11:30 + 1 hour = 13:30).
C8_LunchSkip ==
    (Calculated /\ op.hours >= 1) =>
        LET start == Reading(op.run.afterDays)
            h == op.hours * 60
        IN  (DayStart <= start.tod /\ start.tod < LunchStart
             /\ h <= RemainingToday(start.tod))
            => LocalReading(op.run.result) =
                   [day |-> start.day,
                    tod |-> IF start.tod + h <= LunchStart
                            THEN start.tod + h
                            ELSE start.tod + h + 60]

C8_Witness ==
    /\ Calculated /\ op.hours = 3
    /\ Reading(op.run.afterDays).tod = 11 * 60 + 30
    /\ LocalReading(op.run.result) =
           [day |-> op.run.afterDays.day, tod |-> 15 * 60 + 30]

-----------------------------------------------------------------------------
\* The callers whose lookup started before any provider response had arrived
\* and has returned.
EarlyCallers == {c \in Callers : calls[c].pc = "done" /\ calls[c].early}

\* C12: when several holiday lookups start before any provider response has
\* arrived, they all observe the same holiday set (the provider is called
\* effectively once), whatever the order and outcome of their responses.
C12_ConcurrentFirstAccess ==
    \A c, d \in EarlyCallers : calls[c].value = calls[d].value

\* C11: isWithinBusinessHours(reading) is true exactly when the local time of
\* day t satisfies 08:00 <= t <= 17:00 and not 12:00 <= t <= 13:00: 08:00 and
\* 17:00 are inside business hours, 12:00 and 13:00 are inside the lunch window.
C11_BusinessHours ==
    op.kind = "isWithinBusinessHours" =>
        LET t == op.date.hour * 60 + op.date.minute
        IN  /\ op.result = (/\ 8 * 60 <= t /\ t <= 17 * 60
                            /\ ~(12 * 60 <= t /\ t <= 13 * 60))
            /\ t \in {8 * 60, 17 * 60} => op.result
            /\ t \in {12 * 60, 13 * 60} => ~op.result

C11_Witness ==
    /\ op.kind = "isWithinBusinessHours"
    /\ op.date.hour = 13 /\ op.date.minute = 0
    /\ ~op.result

\* Monday (civil day 0 is a Monday).
IsMonday(day) == day % 7 = 0

\* The first Monday on or after a civil day.
FirstMondayOnOrAfter(day) == CHOOSE m \in day..(day + 6) : IsMonday(m)

ComputedHolidays == op.kind = "calculateColombianHolidays"

\* C13: for every year and every Monday-transposed fixed holiday with nominal
\* date D, the observed date is a Monday, lies 0 to 6 days after D, and equals
\* D exactly when D is already a Monday.
C13_BridgeLaw ==
    ComputedHolidays =>
        \A n \in 1..Len(MOVABLE_HOLIDAYS) :
            LET D == CivilDay(op.year, MOVABLE_HOLIDAYS[n][1], MOVABLE_HOLIDAYS[n][2])
                observed == toISODate(movableDate(op.zone, op.year, MOVABLE_HOLIDAYS[n]))
            IN  /\ IsMonday(observed)
                /\ observed - D \in 0..6
                /\ (observed = D) <=> IsMonday(D)
                /\ \E i \in 1..Len(op.holidays) : op.holidays[i] = observed

\* 2025: Reyes (Monday 6 January) stays, San Jose (Wednesday 19 March) is
\* observed on Monday 24 March.
C13_Witness ==
    /\ ComputedHolidays /\ op.year = 2025
    /\ toISODate(movableDate(op.zone, 2025, <<1, 6>>)) = CivilDay(2025, 1, 6)
    /\ toISODate(movableDate(op.zone, 2025, <<3, 19>>)) = CivilDay(2025, 3, 24)
    /\ \E i \in 1..Len(op.holidays) : op.holidays[i] = CivilDay(2025, 3, 24)

\* C14: for every year of the range calculateEaster yields a Sunday (between
\* 22 March and 25 April); Holy Thursday and Good Friday are Easter - 3 and
\* Easter - 2, a Thursday and a Friday, never moved; Ascension (Easter + 39),
\* Corpus Christi (Easter + 60) and Sacred Heart (Easter + 68) are each on the
\* first Monday on or after their nominal date.
C14_EasterRelative ==
    ComputedHolidays =>
        LET E == toISODate(calculateEaster(op.zone, op.year))
            observed == easterHolidays(op.zone, op.year)
        IN  /\ E % 7 = 6
            /\ CivilDay(op.year, 3, 22) <= E /\ E <= CivilDay(op.year, 4, 25)
            /\ op.year = 2011 => E = CivilDay(2011, 4, 24)
            /\ op.year = 2025 => E = CivilDay(2025, 4, 20)
            /\ op.year = 2038 => E = CivilDay(2038, 4, 25)
            /\ observed = << E - 3, E - 2, FirstMondayOnOrAfter(E + 39),
                             FirstMondayOnOrAfter(E + 60), FirstMondayOnOrAfter(E + 68) >>
            /\ (E - 3) % 7 = 3 /\ (E - 2) % 7 = 4
            /\ \A n \in 1..5 : \E i \in 1..Len(op.holidays) : op.holidays[i] = observed[n]

\* 2025: Easter on 20 April, Holy Thursday 17 April, Good Friday 18 April,
\* Ascension 2 June, Corpus Christi 23 June, Sacred Heart 30 June.
C14_Witness ==
    /\ ComputedHolidays /\ op.year = 2025
    /\ easterHolidays(op.zone, 2025) =
           << CivilDay(2025, 4, 17), CivilDay(2025, 4, 18), CivilDay(2025, 6, 2),
              CivilDay(2025, 6, 23), CivilDay(2025, 6, 30) >>

\* C15: the locally computed holiday list of a year is sorted ascending by date
\* and contains no date twice, even when two rules yield the same observed date.
C15_SortedNoDuplicates ==
    ComputedHolidays =>
        \A i \in 1..(Len(op.holidays) - 1) : op.holidays[i] < op.holidays[i + 1]

\* A parameter that is given: present with a value.
Given(param) == param.present /\ param.text # <<>>

\* A string that is the decimal notation of a non-negative integer.
IsNaturalNumeral(text) ==
    text # <<>> /\ \A i \in 1..Len(text) : \E n \in 1..10 : Digits[n] = text[i]

\* What a request must satisfy to be accepted.
Acceptable(query) ==
    /\ Given(query.days) \/ Given(query.hours)
    /\ Given(query.days) => IsNaturalNumeral(query.days.text)
    /\ Given(query.hours) => IsNaturalNumeral(query.hours.text)
    /\ query.date.present =>
           query.date.text.endsWithZ /\ query.date.text.parsed.tag = "number"

Requested == op.kind = "request"

\* C16: request validation accepts a request exactly when at least one of
\* days/hours is present, every present days/hours value is a non-negative
\* integer, and the date, if present, ends in 'Z' and parses to a valid instant.
C16_ValidationAccepts ==
    Requested => (op.validation.success <=> Acceptable(op.query))

C17_ResultAfterAnchor ==
    (Calculated /\ (op.days >= 1 \/ op.hours >= 1)) => op.run.result > op.startDate

\* The closest working day strictly before a civil day.
PreviousWorkingDay(holidays, day) ==
    CHOOSE d \in (day - Cardinality(holidays) - 3)..(day - 1) :
        /\ WorkingCivilDay(holidays, d)
        /\ \A e \in (d + 1)..(day - 1) : ~WorkingCivilDay(holidays, e)

Adjusted == op.kind = "adjustToPreviousWorkingTime"

\* C19: adjustToPreviousWorkingTime(x) is never later than x and is 17:00 local
\* of the closest earlier working day when x is on a non-working day or on a
\* working day before 08:00; 17:00 local of the same civil day when x is on a
\* working day after 17:00; 12:00 local of the same civil day when x is on a
\* working day inside the lunch window (12:30 -> 12:00); x itself when x is
\* already valid.
C19_BackwardAdjustment ==
    Adjusted =>
        LET x == LocalReading(op.date)
            result == LocalReading(op.result)
        IN  /\ op.result <= op.date
            /\ result =
                   IF ~WorkingCivilDay(op.view, x.day) \/ x.tod < DayStart
                   THEN [day |-> PreviousWorkingDay(op.view, x.day), tod |-> DayEnd]
                   ELSE IF x.tod > DayEnd
                   THEN [day |-> x.day, tod |-> DayEnd]
                   ELSE IF LunchStart <= x.tod /\ x.tod <= LunchEnd
                   THEN [day |-> x.day, tod |-> LunchStart]
                   ELSE x

\* C20: for every input instant and holiday set, the instant returned by
\* adjustToPreviousWorkingTime satisfies both isWorkingDay and
\* isWithinBusinessHours.
C20_AdjustedIsValid ==
    Adjusted =>
        /\ isWorkingDay(op.view, op.result)
        /\ isWithinBusinessHours(utcToColombiaTime(op.result))

LookedUp == op.kind = "lookup"

\* C21: in any sequence of holiday lookups (isHoliday, fetchHolidays) with no
\* clearCache in between, the external provider is called at most once,
\* whether that first call succeeded or failed; after clearCache the next
\* lookup calls the provider again.
C21_FetchAtMostOnce ==
    /\ requests <= 1
    /\ (LookedUp /\ op.before = 0) => op.requested

\* C22: once the per-year holiday cache holds an entry for year y, that entry
\* is never replaced by a different value until clearCache is called, under
\* any interleaving of concurrent fetchHolidays(y) calls whose provider
\* requests succeed or fail independently.
C22_EntrySticky ==
    [][\A year \in FetchYears :
           holidaysCache[year] # NULL =>
               \/ holidaysCache'[year] = holidaysCache[year]
               \/ holidaysCache' = [y \in FetchYears |-> NULL]]_vars

\* C23: calculateWorkingDateTime called directly with days < 0 or hours < 0
\* fails with an error instead of returning a result instant.
C23_CoreRejectsNegative ==
    (Calculated /\ (op.days < 0 \/ op.hours < 0)) => op.run.result \notin Int

\* The adjusted anchor of a calculation of 1 working hour stands at the end of
\* a business day or at lunch start.
OneHourFromNoTimeLeft ==
    /\ Calculated /\ op.days = 0 /\ op.hours = 1
    /\ Reading(op.run.normalized).tod \in {DayEnd, LunchStart}

C27_RemainingBusinessTime ==
    (Calculated /\ op.hours >= 1) =>
        LET start == Reading(op.run.afterDays)
            remaining == calculateRemainingBusinessHours(op.run.afterDays)
            h == op.hours * 60
        IN  /\ (DayStart <= start.tod /\ start.tod < LunchStart)
               => remaining = (DayEnd - start.tod) - (LunchEnd - LunchStart)
            /\ (LunchStart <= start.tod /\ start.tod < LunchEnd)
               => /\ remaining = DayEnd - LunchEnd
                  /\ h <= DayEnd - LunchEnd
                     => LocalReading(op.run.result) =
                            [day |-> start.day, tod |-> LunchEnd + h]

\* The length of the part of [lo, hi] that lies in [from, to].
Overlap(lo, hi, from, to) == Max(0, Min(hi, to) - Max(lo, from))

\* The business minutes (working days only, 08:00-12:00 and 13:00-17:00) of
\* the civil days day..b.day that lie between the readings a and b.
RECURSIVE BusinessMinutesFrom(_, _, _, _)
BusinessMinutesFrom(holidays, a, b, day) ==
    IF day > b.day THEN 0
    ELSE LET lo == IF day = a.day THEN a.tod ELSE 0
             hi == IF day = b.day THEN b.tod ELSE MinutesPerDay
             today == IF WorkingCivilDay(holidays, day)
                      THEN Overlap(lo, hi, DayStart, LunchStart)
                           + Overlap(lo, hi, LunchEnd, DayEnd)
                      ELSE 0
         IN  today + BusinessMinutesFrom(holidays, a, b, day + 1)

\* The business minutes between two readings, a not after b.
BusinessMinutesBetween(holidays, a, b) == BusinessMinutesFrom(holidays, a, b, a.day)

\* The business minutes between the start of the hour step of a calculation
\* and its result.
Worked ==
    BusinessMinutesBetween(op.view, Reading(op.run.afterDays), LocalReading(op.run.result))

FirstLeg(h1) == calculateWorkingDateTime(op.view, 0, h1, op.startDate)

\* The result of adding h1 working hours and then the rest of op.hours to
\* the result.
TwoLegs(h1) ==
    calculateWorkingDateTime(op.view, 0, op.hours - h1, FirstLeg(h1).result).result

\* A time of day from which the code finds no business time left in the day.
NoTimeLeft(tod) == tod \in {LunchStart, LunchEnd, DayEnd}

Finished == op.kind = "finished"

\* What the finished call would have returned had every working-day test
\* been answered from the list holidays.
FromOneList(holidays) ==
    calculateWorkingDateTime(holidays, op.days, op.hours, op.startDate).result

\* C30: within one calculateWorkingDateTime invocation every working-day test
\* is answered from the same holiday set (the served list, or the empty list
\* of a failed lookup), and the result is the one that set gives, however the
\* provider's answers and other requests' lookups interleave with the awaits.
C30_ConsistentView ==
    Finished =>
        \E holidays \in {{}, provider} :
            /\ op.views = {holidays}
            /\ op.result = FromOneList(holidays)

\* C26: a search for a working day, backward or forward, takes no more than
\* the iteration cap of steps: a search that has not found a working day by
\* then stops with the CalendarExhausted failure, so no call is ever seen
\* searching, or returned, with more steps than the cap behind it.
C26_CalendarExhausted ==
    op.kind \in {"running", "finished"} => op.steps <= IterationCap

\* A step of the backward search: the call waits in the loop of
\* adjustToPreviousWorkingTime before and after it.
BackwardStep ==
    /\ op.kind = "running" /\ op.pc = "adjust"
    /\ op'.kind = "running" /\ op'.pc = "adjust"
    /\ op'.steps = op.steps + 1

\* C25: every calculateWorkingDateTime call on a finite holiday list returns
\* (the backward search, the forward day loop and the hour carry-over loop
\* each end), and each step of the backward search strictly decreases the
\* candidate instant.
C25_Terminates ==
    /\ [][BackwardStep =>
              localMinutes(op'.currentDate) < localMinutes(op.currentDate)]_vars
    /\ (op.kind = "running") ~> Finished

\* Sunday 5 January 19:00 + 1 day + MaxHours hours, Monday 6 January a
\* holiday: back over the weekend to Friday, on over the weekend and the
\* holiday to Tuesday, the hours carried over to Thursday.
C25_Witness ==
    /\ Finished /\ op.days = 1 /\ op.hours = MaxHours
    /\ op.startDate = toJSDate(DateTime(CivilDay(2025, 1, 5), 19, 0))
    /\ op.views = {{CivilDay(2025, 1, 6)}}
    /\ LocalReading(op.result).day = CivilDay(2025, 1, 9)

====
